---- MODULE Spec2Model ----
(***************************************************************************)
(* Model of sentinel_int::int_sentinel::IntSentinel (src/src/lib.rs).      *)
(*                                                                         *)
(* A u64 is a big-endian sequence of NumLimbs limbs of 16 bits each, so    *)
(* that 2^64 - 1 and its neighbours are represented exactly.  The state is *)
(* the collection of live IntSentinel instances a client holds, plus a     *)
(* record of the last call and what it returned.                           *)
(***************************************************************************)
EXTENDS Integers, Sequences, FiniteSets, TLC

VARIABLES instances, origin, last

vars == <<instances, origin, last>>

(* ---------------------------- bounds ----------------------------------- *)

MaxInstances == 2

MaxDelta == 1

(* ---------------------------- u64 -------------------------------------- *)

U64Bits == 64

LimbBase == 2^16

NumLimbs == U64Bits \div 16

Limbs == 1..NumLimbs

U64FromSmall(n) == [i \in Limbs |-> IF i = NumLimbs THEN n ELSE 0]

U64Zero == U64FromSmall(0)

U64One == U64FromSmall(1)

u64_max_value == [i \in Limbs |-> LimbBase - 1]

RECURSIVE SubFrom(_, _, _, _)
SubFrom(a, b, i, bin) ==
    IF i = 0
    THEN [val |-> <<>>, borrow |-> bin]
    ELSE LET d    == a[i] - b[i] - bin
             limb == (d + LimbBase) % LimbBase
             bout == IF d < 0 THEN 1 ELSE 0
             rest == SubFrom(a, b, i - 1, bout)
         IN  [val |-> Append(rest.val, limb), borrow |-> rest.borrow]

\* a - b on u64: the wrapped difference and whether it overflowed
U64Sub(a, b) ==
    LET r == SubFrom(a, b, NumLimbs, 0)
    IN  [val |-> r.val, overflow |-> r.borrow = 1]

U64Lt(a, b) ==
    \E i \in Limbs : a[i] < b[i] /\ \A j \in 1..(i - 1) : a[j] = b[j]

\* decimal digits of a u64, most significant first (0 has no digits)
RECURSIVE DivTen(_, _, _)
DivTen(a, i, rem) ==
    IF i > NumLimbs
    THEN [q |-> <<>>, r |-> rem]
    ELSE LET cur  == rem * LimbBase + a[i]
             rest == DivTen(a, i + 1, cur % 10)
         IN  [q |-> <<cur \div 10>> \o rest.q, r |-> rest.r]

RECURSIVE Decimal(_)
Decimal(a) ==
    IF a = U64Zero
    THEN <<>>
    ELSE LET qr == DivTen(a, 1, 0)
         IN  Append(Decimal(qr.q), qr.r)

(* ---------------------------- values ----------------------------------- *)

NoU64 == <<>>

None == [tag |-> "None", val |-> NoU64]

Some(v) == [tag |-> "Some", val |-> v]

NoOption == [tag |-> "-", val |-> NoU64]

IntSentinel(v) == [value |-> v]

NoInstance == IntSentinel(NoU64)

NoOrigin == [ctor |-> "-", value |-> NoU64, option |-> NoOption]

TestValue == 42

LowOnes == [i \in Limbs |-> IF 2 * i > NumLimbs THEN LimbBase - 1 ELSE 0]

HighOnes == [i \in Limbs |-> IF 2 * i > NumLimbs THEN 0 ELSE LimbBase - 1]

\* raw 64-bit inputs a caller passes: both ends of the range, the value the
\* tests use, and values that agree with the sentinel on half of their bits
Inputs ==
    {U64FromSmall(d) : d \in 0..MaxDelta}
      \cup {U64Sub(u64_max_value, U64FromSmall(d)).val : d \in 0..MaxDelta}
      \cup {U64FromSmall(TestValue), LowOnes, HighOnes}

OptionInputs == {None} \cup {Some(v) : v \in Inputs}

(* ---------------------------- IntSentinel ------------------------------ *)

\* variant: the sentinel taken from the wrong end of the range
sentinel_min == U64Zero

sentinel == u64_max_value

\* variant: the operands of the subtraction exchanged
max_value_swapped(overflow_checks) ==
    LET d == U64Sub(U64One, sentinel)
    IN  [panicked |-> overflow_checks /\ d.overflow, val |-> d.val]

max_value(overflow_checks) ==
    LET d == U64Sub(sentinel, U64One)
    IN  [panicked |-> overflow_checks /\ d.overflow, val |-> d.val]

\* variant: the absent value stored as zero
new_none_zero == IntSentinel(U64Zero)

new_none == IntSentinel(u64_max_value)

\* variant: the check rejects max_value() as well
new_with_some_strict(value) ==
    IF ~U64Lt(value, U64Sub(u64_max_value, U64One).val)
    THEN [panicked |-> TRUE, inst |-> NoInstance]
    ELSE [panicked |-> FALSE, inst |-> IntSentinel(value)]

\* variant: the check left out
new_with_some_unguarded(value) ==
    [panicked |-> FALSE, inst |-> IntSentinel(value)]

new_with_some(value) ==
    IF value = u64_max_value
    THEN [panicked |-> TRUE, inst |-> NoInstance]
    ELSE [panicked |-> FALSE, inst |-> IntSentinel(value)]

\* variant: the comparison made on the low 32 bits only
to_option_truncated(self) ==
    IF \A i \in Limbs : 2 * i > NumLimbs => self.value[i] = u64_max_value[i]
    THEN None
    ELSE Some(self.value)

\* variant: the comparison made against max_value()
to_option_below(self) ==
    IF self.value = U64Sub(u64_max_value, U64One).val
    THEN None
    ELSE Some(self.value)

to_option(self) ==
    IF self.value = u64_max_value
    THEN None
    ELSE Some(self.value)

unchecked_new(value) == IntSentinel(value)

\* variant: the absent value reported as zero
to_u64_unchecked_zero(self) ==
    IF self.value = u64_max_value THEN U64Zero ELSE self.value

to_u64_unchecked(self) == self.value

\* variant: None encoded through the present constructor
from_option_present(option) ==
    IF option.tag = "Some"
    THEN new_with_some(option.val)
    ELSE new_with_some(U64Zero)

from_option(option) ==
    IF option.tag = "Some"
    THEN new_with_some(option.val)
    ELSE [panicked |-> FALSE, inst |-> new_none]

from_sentinel(s) == to_option(s)

(* ---------------------------- state machine ---------------------------- *)

Call(op) ==
    [op |-> op, at |-> 0, value |-> NoU64, option |-> NoOption,
     self |-> NoInstance, origin |-> NoOrigin, retOpt |-> NoOption, retU64 |-> NoU64,
     panicked |-> FALSE]

Built(ctor, value, option) == [ctor |-> ctor, value |-> value, option |-> option]

Live == 1..Len(instances)

Remove(s, i) == [j \in 1..(Len(s) - 1) |-> IF j < i THEN s[j] ELSE s[j + 1]]

Init ==
    /\ instances = <<>>
    /\ origin = <<>>
    /\ last = Call("init")

\* the caller keeps the instance a constructor returned; a panic returns none
Construct(r, how, call) ==
    /\ r.panicked \/ Len(instances) < MaxInstances
    /\ instances' = IF r.panicked THEN instances ELSE Append(instances, r.inst)
    /\ origin' = IF r.panicked THEN origin ELSE Append(origin, how)
    /\ last' = [call EXCEPT !.panicked = r.panicked, !.self = r.inst,
                            !.origin = IF r.panicked THEN NoOrigin ELSE how]

MaxValue ==
    \E overflow_checks \in BOOLEAN :
        LET r == max_value(overflow_checks)
        IN  /\ last' = [Call("max_value") EXCEPT
                           !.panicked = r.panicked,
                           !.retU64 = IF r.panicked THEN NoU64 ELSE r.val]
            /\ UNCHANGED <<instances, origin>>

Sentinel ==
    /\ last' = [Call("sentinel") EXCEPT !.retU64 = sentinel]
    /\ UNCHANGED <<instances, origin>>

NewNone ==
    Construct([panicked |-> FALSE, inst |-> new_none],
              Built("new_none", NoU64, NoOption), Call("new_none"))

NewWithSome ==
    \E value \in Inputs :
        Construct(new_with_some(value),
                  Built("new_with_some", value, NoOption),
                  [Call("new_with_some") EXCEPT !.value = value])

UncheckedNew ==
    \E value \in Inputs :
        Construct([panicked |-> FALSE, inst |-> unchecked_new(value)],
                  Built("unchecked_new", value, NoOption),
                  [Call("unchecked_new") EXCEPT !.value = value])

FromOption ==
    \E option \in OptionInputs :
        Construct(from_option(option),
                  Built("from", NoU64, option),
                  [Call("from") EXCEPT !.option = option])

\* variant: decoding takes the value out and leaves the instance absent
ToOptionTake ==
    \E i \in Live :
        /\ last' = [Call("to_option") EXCEPT
                       !.at = i, !.self = instances[i], !.origin = origin[i],
                       !.retOpt = to_option(instances[i])]
        /\ instances' = [instances EXCEPT ![i] = new_none]
        /\ UNCHANGED origin

ToOption ==
    \E i \in Live :
        /\ last' = [Call("to_option") EXCEPT
                       !.at = i, !.self = instances[i], !.origin = origin[i],
                       !.retOpt = to_option(instances[i])]
        /\ UNCHANGED <<instances, origin>>

ToU64Unchecked ==
    \E i \in Live :
        /\ last' = [Call("to_u64_unchecked") EXCEPT
                       !.at = i, !.self = instances[i], !.origin = origin[i],
                       !.retU64 = to_u64_unchecked(instances[i])]
        /\ UNCHANGED <<instances, origin>>

\* Option::<u64>::from(sentinel) takes the instance by value
IntoOption ==
    \E i \in Live :
        /\ last' = [Call("into") EXCEPT
                       !.at = i, !.self = instances[i], !.origin = origin[i],
                       !.retOpt = from_sentinel(instances[i])]
        /\ instances' = Remove(instances, i)
        /\ origin' = Remove(origin, i)

\* re-encoding a decoded value: IntSentinel::from(instance.to_option());
\* last.origin is how the decoded instance was built
Reencode ==
    \E i \in Live :
        LET d == to_option(instances[i])
            r == from_option(d)
        IN  /\ r.panicked \/ Len(instances) < MaxInstances
            /\ instances' = IF r.panicked THEN instances
                             ELSE Append(instances, r.inst)
            /\ origin' = IF r.panicked THEN origin
                          ELSE Append(origin, Built("from", NoU64, d))
            /\ last' = [Call("reencode") EXCEPT
                           !.at = i, !.option = d, !.origin = origin[i],
                           !.panicked = r.panicked, !.self = r.inst,
                           !.retOpt = IF r.panicked THEN NoOption
                                      ELSE to_option(r.inst),
                           !.retU64 = IF r.panicked THEN NoU64
                                      ELSE to_u64_unchecked(r.inst)]

Next ==
    \/ MaxValue
    \/ Sentinel
    \/ NewNone
    \/ NewWithSome
    \/ UncheckedNew
    \/ FromOption
    \/ ToOption
    \/ ToU64Unchecked
    \/ IntoOption
    \/ Reencode

Spec == Init /\ [][Next]_vars

(* ---------------------------- properties ------------------------------- *)

\* 2^64 - 1 and 2^64 - 2 in decimal
SentinelDigits == <<1,8,4,4,6,7,4,4,0,7,3,7,0,9,5,5,1,6,1,5>>

MaxValueDigits == <<1,8,4,4,6,7,4,4,0,7,3,7,0,9,5,5,1,6,1,4>>

\* the raw value a constructor call was asked to store
RawGiven(o) ==
    CASE o.ctor = "new_none" -> sentinel
      [] o.ctor \in {"new_with_some", "unchecked_new"} -> o.value
      [] o.ctor = "from" ->
            IF o.option.tag = "Some" THEN o.option.val ELSE sentinel

Accessors == {"to_option", "to_u64_unchecked"}

Constructors == {"new_none", "new_with_some", "unchecked_new", "from", "reencode"}

\* C1: a present value v in [0, MAX-1] round-trips: new_with_some(v) and
\* from(Some(v)) do not panic, to_option() of the result is Some(v), and
\* Option::from(IntSentinel::from(Some(v))) is Some(v).
C1_RoundTripPresent ==
    /\ (last.op = "new_with_some" /\ U64Lt(last.value, u64_max_value))
          => (~last.panicked /\ to_option(last.self) = Some(last.value))
    /\ (last.op = "from" /\ last.option.tag = "Some"
                         /\ U64Lt(last.option.val, u64_max_value))
          => (~last.panicked /\ from_sentinel(last.self) = last.option)
    /\ (last.op = "to_option" /\ last.origin.ctor = "new_with_some")
          => last.retOpt = Some(last.origin.value)
    /\ (last.op = "into" /\ last.origin.ctor = "from"
                         /\ last.origin.option.tag = "Some")
          => last.retOpt = last.origin.option

C1_Witness ==
    /\ last.op = "into"
    /\ last.origin = Built("from", NoU64, Some(U64Sub(u64_max_value, U64One).val))
    /\ last.retOpt = Some(U64Sub(u64_max_value, U64One).val)

\* C2: new_with_some(v) panics exactly when v is the sentinel, that is when
\* v is greater than max_value(); from(Some(v)) panics under the same
\* condition; a panicking call produces no instance.
C2_Boundary(v) ==
    /\ last'.panicked <=> (v = sentinel)
    /\ last'.panicked <=> U64Lt(max_value(TRUE).val, v)
    /\ last'.panicked => (instances' = instances /\ last'.self = NoInstance)
    /\ ~last'.panicked => instances' = Append(instances, IntSentinel(v))

C2_SentinelBoundary ==
    [][ /\ last'.op = "new_with_some" => C2_Boundary(last'.value)
        /\ (last'.op = "from" /\ last'.option.tag = "Some")
              => C2_Boundary(last'.option.val) ]_vars

C2_Witness ==
    /\ last.op = "from"
    /\ last.option = Some(u64_max_value)
    /\ last.panicked
    /\ Len(instances) = 1

\* C3: the absent value round-trips: new_none() stores sentinel() and decodes
\* to None, and Option::from(IntSentinel::from(None)) is None.
C3_RoundTripAbsent ==
    /\ \A i \in Live :
          origin[i].ctor = "new_none" => to_u64_unchecked(instances[i]) = sentinel
    /\ last.op = "new_none" => (~last.panicked /\ last.self.value = sentinel)
    /\ (last.op = "to_option" /\ last.origin.ctor = "new_none")
          => last.retOpt = None
    /\ (last.op = "into" /\ last.origin = Built("from", NoU64, None))
          => last.retOpt = None

C3_Witness ==
    /\ last.op = "into"
    /\ last.origin = Built("from", NoU64, None)
    /\ last.retOpt = None

\* C4: unchecked_new(r) never fails for any raw r, and to_option() of the
\* result is None when r is the sentinel and Some(r) for every other r.
C4_UncheckedDecode ==
    /\ last.op = "unchecked_new"
          => (~last.panicked /\ last.self # NoInstance)
    /\ (last.op = "to_option" /\ last.origin.ctor = "unchecked_new")
          => last.retOpt = IF last.origin.value = sentinel
                           THEN None
                           ELSE Some(last.origin.value)

C4_Witness ==
    /\ last.op = "to_option"
    /\ last.origin = Built("unchecked_new", LowOnes, NoOption)
    /\ last.retOpt = Some(LowOnes)

\* C5: to_u64_unchecked() returns the stored raw value: sentinel() on an
\* instance that decodes to None, v on one that decodes to Some(v), and r on
\* unchecked_new(r).
C5_RawValue ==
    last.op = "to_u64_unchecked" =>
        /\ ~last.panicked
        /\ last.retU64 = RawGiven(last.origin)
        /\ to_option(last.self) = None => last.retU64 = sentinel
        /\ to_option(last.self).tag = "Some"
              => last.retU64 = to_option(last.self).val

C5_Witness ==
    /\ last.op = "to_u64_unchecked"
    /\ last.origin = Built("from", NoU64, None)
    /\ last.retU64 = u64_max_value

\* C6: re-encoding the decoding of any raw value r (the sentinel included),
\* from(unchecked_new(r).to_option()), does not panic, stores exactly r and
\* decodes to the same option as before.
C6_Reencode ==
    last.op = "reencode" =>
        /\ ~last.panicked
        /\ last.retU64 = RawGiven(last.origin)
        /\ last.retOpt = last.option

C6_Witness ==
    /\ last.op = "reencode"
    /\ last.origin = Built("unchecked_new", u64_max_value, NoOption)
    /\ last.retU64 = u64_max_value
    /\ last.retOpt = None

\* C7: sentinel() is 18446744073709551615 and max_value() is sentinel() - 1
\* computed without wrapping, that is 18446744073709551614.
C7_MaxValue ==
    /\ last.op = "sentinel" => Decimal(last.retU64) = SentinelDigits
    /\ last.op = "max_value" =>
          /\ ~last.panicked
          /\ ~U64Sub(sentinel, U64One).overflow
          /\ U64Sub(sentinel, last.retU64).val = U64One
          /\ Decimal(last.retU64) = MaxValueDigits

C7_Witness ==
    /\ last.op = "max_value"
    /\ last.retU64 = <<LimbBase - 1, LimbBase - 1, LimbBase - 1, LimbBase - 2>>

\* C8: every operation other than constructing a present value is total:
\* max_value, sentinel, new_none, to_option, unchecked_new,
\* to_u64_unchecked, from(None) and Option::from(instance) never panic.
C8_Total ==
    (\/ last.op \in {"max_value", "sentinel", "new_none", "to_option",
                     "unchecked_new", "to_u64_unchecked", "into"}
     \/ (last.op = "from" /\ last.option = None))
        => ~last.panicked

C8_Witness ==
    /\ last.op = "into"
    /\ last.origin = Built("unchecked_new", u64_max_value, NoOption)
    /\ ~last.panicked

\* C9: whatever constructor built an instance, to_option() never returns
\* Some(sentinel()); every present payload is at most max_value().
C9_Legal(o) ==
    /\ o # Some(u64_max_value)
    /\ o.tag = "Some" => ~U64Lt(max_value(TRUE).val, o.val)

C9_NoSentinelPayload ==
    /\ \A i \in Live : C9_Legal(to_option(instances[i]))
    /\ (last.op \in {"to_option", "into", "reencode"} /\ ~last.panicked)
          => C9_Legal(last.retOpt)

C9_Witness ==
    /\ Len(instances) = 2
    /\ origin[1] = Built("unchecked_new", u64_max_value, NoOption)
    /\ origin[2] = Built("unchecked_new", U64Sub(u64_max_value, U64One).val, NoOption)
    /\ last.op = "to_option"
    /\ last.at = 2

\* C10: accessors leave every instance unchanged: each live instance keeps
\* the raw value given at construction, a to_option() call returns what the
\* previous access to the same instance saw, and a constructor leaves the
\* existing instances as they were.
C10_Immutable ==
    [][ /\ last'.op \in Accessors => instances' = instances
        /\ \A i \in 1..Len(instances') :
              instances'[i].value = RawGiven(origin'[i])
        /\ (last.op \in Accessors /\ last'.op = "to_option"
                                  /\ last.at = last'.at)
              => last'.retOpt = to_option(last.self)
        /\ (last.op = "to_option" /\ last'.op = "to_option"
                                  /\ last.at = last'.at)
              => last'.retOpt = last.retOpt
        /\ (last'.op \in Constructors /\ Len(instances') > 0)
              => SubSeq(instances', 1, Len(instances)) = instances ]_vars

C10_Witness ==
    /\ last.op = "to_option"
    /\ last.at = 1
    /\ Len(instances) = 2
    /\ origin[1].ctor = "new_with_some"
    /\ last.retOpt = Some(origin[1].value)

====
